---- MODULE Spec2Model ----
(***************************************************************************)
(* Model of eight_deep_parser (8dparser): the nom grammar of               *)
(* src/src/parser.rs and the public functions parse_one, parse_multi,      *)
(* to_map and parse_back of src/src/lib.rs.                                *)
(*                                                                         *)
(* A text is a sequence of bytes; a byte is a one-character string.  A     *)
(* nom parser takes the input and a cursor i (the index of the next byte,  *)
(* 1..Len(input)+1) and returns [ok, i, o]: whether it matched, the cursor *)
(* after the match (the "remaining input" of nom), and its output.  A      *)
(* borrowed slice &[u8] of the input is the pair [from, to) of cursors.    *)
(***************************************************************************)
EXTENDS Integers, Sequences, FiniteSets, TLC

VARIABLES s, map, pc, r, prev, cmt

vars == <<s, map, pc, r, prev, cmt>>

(***************************************************************************)
(* Bytes and slices                                                        *)
(***************************************************************************)
NL == "\n"
SP == " "
TAB == "\t"
CR == "\r"
COLON == ":"
DASH == "-"

Min(S) == CHOOSE x \in S : \A y \in S : x <= y
Max(S) == CHOOSE x \in S : \A y \in S : x >= y

Slice(from, to) == [from |-> from, to |-> to]

\* the bytes of a slice of the input (to_string / to_vec of a &[u8])
Bytes(input, sl) == SubSeq(input, sl.from, sl.to - 1)

Ok(i, o) == [ok |-> TRUE, i |-> i, o |-> o]
\* Err::Error: the parser did not match (its position is not used)
Err == [ok |-> FALSE, i |-> 0, o |-> <<>>]

(***************************************************************************)
(* nom primitives (complete versions)                                      *)
(***************************************************************************)
\* does pat occur in input at cursor j
At(input, j, pat) ==
  /\ j + Len(pat) - 1 <= Len(input)
  /\ \A k \in 1..Len(pat) : input[j + k - 1] = pat[k]

\* tag(t): the input at i starts with t
tag(input, i, t) ==
  IF At(input, i, t) THEN Ok(i + Len(t), Slice(i, i + Len(t))) ELSE Err

\* take_until(pat): the bytes before the first occurrence of pat at or after
\* i, not consuming pat; an error when pat does not occur
take_until(input, i, pat) ==
  LET found == {j \in i..Len(input) : At(input, j, pat)}
  IN  IF found = {} THEN Err ELSE Ok(Min(found), Slice(i, Min(found)))

\* the cursor after the longest run of bytes of set ws starting at i
SkipWhile(input, i, ws) ==
  LET stop == {j \in i..Len(input) : input[j] \notin ws}
  IN  IF stop = {} THEN Len(input) + 1 ELSE Min(stop)

\* space0: zero or more spaces and tabs
space0(input, i) == Ok(SkipWhile(input, i, {SP, TAB}), <<>>)

\* multispace0: zero or more spaces, tabs, carriage returns and line feeds
multispace0(input, i) == Ok(SkipWhile(input, i, {SP, TAB, CR, NL}), <<>>)

(***************************************************************************)
(* nom's combinators.  A parser is a value that names its combinator and   *)
(* its parts, as the Rust expression that builds it does; Run applies it.  *)
(***************************************************************************)
Tag(t) == [op |-> "tag", t |-> t]
TakeUntil(t) == [op |-> "take_until", t |-> t]
Char(c) == [op |-> "tag", t |-> <<c>>]
Space0 == [op |-> "space0"]
Multispace0 == [op |-> "multispace0"]
Delimited(a, b, c) == [op |-> "delimited", a |-> a, b |-> b, c |-> c]
Preceded(a, b) == [op |-> "preceded", a |-> a, b |-> b]
Terminated(a, b) == [op |-> "terminated", a |-> a, b |-> b]
SeparatedPair(a, b, c) == [op |-> "separated_pair", a |-> a, b |-> b, c |-> c]
Tuple(a, b) == [op |-> "tuple", a |-> a, b |-> b]
MapUnit(a) == [op |-> "map_unit", a |-> a]
Verify(a) == [op |-> "verify", a |-> a]
Many0(a) == [op |-> "many0", a |-> a]
Many1(a) == [op |-> "many1", a |-> a]

(***************************************************************************)
(* The grammar: src/src/parser.rs                                          *)
(***************************************************************************)
\* the lines that begin with a space are skipped before a field name
handle_key_name ==
  MapUnit(Many0(Delimited(Tag(<<SP>>), TakeUntil(<<NL>>), Tag(<<NL>>))))

handle_key == Preceded(handle_key_name, TakeUntil(<<COLON>>))

\* the closure of key_name: the key is not empty and does not begin with a
\* newline
key_name_verify(input, key) == key.from < key.to /\ input[key.from] # NL

key_name == Verify(handle_key)

\* separator without its space0: the spaces after ':' stay in the value
separator_mut == MapUnit(Char(COLON))

separator == MapUnit(Tuple(Char(COLON), Space0))

single_line == Terminated(TakeUntil(<<NL>>), Tag(<<NL>>))

\* one continuation line, its one leading space and its newline removed
multi_line_single == Delimited(Tag(<<SP>>), TakeUntil(<<NL>>), Tag(<<NL>>))

\* comment that ends a block at the first newline
comment_mut ==
  MapUnit(Many0(Delimited(Tag(<<DASH, DASH>>), TakeUntil(<<NL>>), Tag(<<NL>>))))

comment ==
  MapUnit(Many0(Delimited(Tag(<<DASH, DASH>>), TakeUntil(<<DASH, NL>>),
                          Tag(<<DASH, NL>>))))

multi_line == Many0(multi_line_single)

\* fn multi_to_one is written by hand: Run applies multi_to_one_fn
multi_to_one == [op |-> "multi_to_one"]

value_field == Tuple(single_line, multi_to_one)

key_value == SeparatedPair(key_name, separator, value_field)

single_package == Terminated(Many1(key_value), Multispace0)

multi_package == Many1(Preceded(comment, single_package))

\* the loop of multi_to_one: the lines joined by "\n", none after the last
RECURSIVE Join(_, _)
Join(input, lines) ==
  IF lines = <<>> THEN <<>>
  ELSE IF Len(lines) = 1 THEN Bytes(input, lines[1])
  ELSE Bytes(input, lines[1]) \o <<NL>> \o Join(input, Tail(lines))

RECURSIVE Run(_, _, _)
RECURSIVE RunMany(_, _, _, _)

\* multi_to_one returns Ok((input, s)): the remaining input it hands back is
\* the input it was given, not what multi_line left
multi_to_one_fn(input, i) ==
  LET ctx == Run(multi_line, input, i)
  IN  IF ~ctx.ok THEN Err ELSE Ok(i, Join(input, ctx.o))

\* the loop of many0, and of many1 after its first match: Err::Error of the
\* repeated parser ends it with what was collected; a match that consumed
\* nothing is an error
RunMany(p, input, i, acc) ==
  LET a == Run(p, input, i)
  IN  IF ~a.ok THEN Ok(i, acc)
      ELSE IF a.i = i THEN Err
      ELSE RunMany(p, input, a.i, Append(acc, a.o))

\* p(input) at cursor i; a, b and c are the results of the parts of p, each
\* applied where the one before it ended
Run(p, input, i) ==
  LET a == Run(p.a, input, i)
      b == Run(p.b, input, a.i)
      c == Run(p.c, input, b.i)
  IN  CASE p.op = "tag" -> tag(input, i, p.t)
        [] p.op = "take_until" -> take_until(input, i, p.t)
        [] p.op = "space0" -> space0(input, i)
        [] p.op = "multispace0" -> multispace0(input, i)
        [] p.op = "multi_to_one" -> multi_to_one_fn(input, i)
        [] p.op = "many0" -> RunMany(p.a, input, i, <<>>)
        [] p.op = "many1" ->
             IF ~a.ok THEN Err ELSE RunMany(p.a, input, a.i, <<a.o>>)
        [] p.op = "map_unit" ->
             IF ~a.ok THEN Err ELSE Ok(a.i, <<>>)
        [] p.op = "verify" ->
             IF ~a.ok THEN Err
             ELSE IF key_name_verify(input, a.o) THEN a ELSE Err
        [] p.op = "preceded" ->
             IF ~a.ok \/ ~b.ok THEN Err ELSE Ok(b.i, b.o)
        [] p.op = "terminated" ->
             IF ~a.ok \/ ~b.ok THEN Err ELSE Ok(b.i, a.o)
        [] p.op = "tuple" ->
             IF ~a.ok \/ ~b.ok THEN Err ELSE Ok(b.i, <<a.o, b.o>>)
        [] p.op = "delimited" ->
             IF ~a.ok \/ ~b.ok \/ ~c.ok THEN Err ELSE Ok(c.i, b.o)
        [] p.op = "separated_pair" ->
             IF ~a.ok \/ ~b.ok \/ ~c.ok THEN Err ELSE Ok(c.i, <<a.o, c.o>>)

(***************************************************************************)
(* The public functions: src/src/lib.rs                                    *)
(***************************************************************************)
\* enum Item.  Both variants are held as a list of lines so that any two
\* items compare: OneLine(v) holds the one string v.
OneLine(v) == [tag |-> "OneLine", lines |-> <<v>>]
MultiLine(v) == [tag |-> "MultiLine", lines |-> v]

\* str::split('\n'): the pieces between the newlines, one more than newlines
RECURSIVE split(_)
split(b) ==
  LET nl == {j \in 1..Len(b) : b[j] = NL}
  IN  IF nl = {} THEN <<b>>
      ELSE <<SubSeq(b, 1, Min(nl) - 1)>> \o split(SubSeq(b, Min(nl) + 1, Len(b)))

\* insert that moves a key already held to the end
insert_mut(m, k, v) ==
  Append(SelectSeq(m, LAMBDA e : e.k # k), [k |-> k, v |-> v])

\* IndexMap::insert: a new key goes to the end; a key already held keeps its
\* place and takes the new value
insert(m, k, v) ==
  LET at == {j \in 1..Len(m) : m[j].k = k}
  IN  IF at = {} THEN Append(m, [k |-> k, v |-> v])
      ELSE [m EXCEPT ![Min(at)].v = v]

\* the loop body deciding by the continuation lines instead of the line
item_of_mut(input, v) ==
  IF v[2] # <<>>
  THEN MultiLine(split(v[2]))
  ELSE OneLine(Bytes(input, v[1]))

\* the body of to_map's loop for v = (one, multi): the value it inserts
item_of(input, v) ==
  IF v[1].from = v[1].to
  THEN MultiLine(split(v[2]))
  ELSE OneLine(Bytes(input, v[1]))

\* to_map.  The input is a &str and every slice is cut at ASCII bytes, so
\* from_utf8 never fails here.
RECURSIVE to_map_loop(_, _, _)
to_map_loop(input, parse_v, result) ==
  IF parse_v = <<>> THEN result
  ELSE to_map_loop(input, Tail(parse_v),
         insert(result, Bytes(input, parse_v[1][1]), item_of(input, parse_v[1][2])))

to_map(input, parse_v) == to_map_loop(input, parse_v, <<>>)

\* A Result, with what the function dropped kept beside it: rest is the
\* remaining input (the `_` of `let (_, parse_v)`) and raw is parse_v.
Done(val, rest, raw) == [ok |-> TRUE, val |-> val, rest |-> rest, raw |-> raw]
Failed == [ok |-> FALSE, val |-> <<>>, rest |-> 0, raw |-> <<>>]

\* `?` on the parser's result returns its error
parse_one(input) ==
  LET p == Run(single_package, input, 1)
  IN  IF ~p.ok THEN Failed
      ELSE Done(to_map(input, p.o), p.i, p.o)

\* parse_multi without its test for the empty input
parse_multi_mut(input) ==
  LET p == Run(multi_package, input, 1)
  IN  IF ~p.ok THEN Failed
      ELSE Done([n \in 1..Len(p.o) |-> to_map(input, p.o[n])], p.i, p.o)

parse_multi(input) ==
  IF input = <<>> THEN Done(<<>>, 1, <<>>)
  ELSE LET p == Run(multi_package, input, 1)
       IN  IF ~p.ok THEN Failed
           ELSE Done([n \in 1..Len(p.o) |-> to_map(input, p.o[n])], p.i, p.o)

\* the lines written with one space before each
RECURSIVE parse_back_lines_mut(_)
parse_back_lines_mut(v) ==
  IF v = <<>> THEN <<>>
  ELSE <<SP>> \o v[1] \o <<NL>> \o parse_back_lines_mut(Tail(v))

\* the loop over the lines of a MultiLine value: "  <line>\n" for each
RECURSIVE parse_back_lines(_)
parse_back_lines(v) ==
  IF v = <<>> THEN <<>>
  ELSE <<SP, SP>> \o v[1] \o <<NL>> \o parse_back_lines(Tail(v))

\* the match without the space between "<key>:" and a OneLine value
parse_back_item_mut(v) ==
  IF v.tag = "OneLine" THEN v.lines[1] \o <<NL>>
  ELSE <<NL>> \o parse_back_lines(v.lines)

\* the match of parse_back: what follows "<key>:"
parse_back_item(v) ==
  IF v.tag = "OneLine" THEN <<SP>> \o v.lines[1] \o <<NL>>
  ELSE <<NL>> \o parse_back_lines(v.lines)

\* the inner loop of parse_back: the fields of one stanza, then "\n"
RECURSIVE parse_back_fields(_)
parse_back_fields(m) ==
  IF m = <<>> THEN <<NL>>
  ELSE m[1].k \o <<COLON>> \o parse_back_item(m[1].v) \o parse_back_fields(Tail(m))

RECURSIVE parse_back(_)
parse_back(doc) ==
  IF doc = <<>> THEN <<>>
  ELSE parse_back_fields(doc[1]) \o parse_back(Tail(doc))

(***************************************************************************)
(* The inputs                                                              *)
(***************************************************************************)
MaxLines == 4
MaxBytes == 4
MaxFields == 2
MaxStanzas == 2

RECURSIVE Concat(_)
Concat(ss) == IF ss = <<>> THEN <<>> ELSE ss[1] \o Concat(Tail(ss))

SeqsUpTo(S, n) == UNION {[1..k -> S] : k \in 0..n}

\* the lines a text is put together from
Lines ==
  { <<"a", COLON, SP, "b", NL>>,     \* a one-line field
    <<"a", COLON, NL>>,              \* a field with nothing after the separator
    <<SP, "b", NL>>,                 \* a continuation line
    <<NL>>,                          \* a blank line
    <<"c", COLON, SP, "d", NL>>,     \* another one-line field
    <<"b", NL>>,                     \* a line with no separator
    <<"a", COLON, SP, "b">>,         \* a field whose line is not terminated
    <<DASH, DASH, "c", DASH, NL>> }  \* a comment block

Alphabet == {"a", COLON, SP, TAB, NL, DASH}

Texts ==
  {Concat(ls) : ls \in SeqsUpTo(Lines, MaxLines)} \cup SeqsUpTo(Alphabet, MaxBytes)

\* comment blocks: "--", then text in which "-\n" first occurs at the end
Comments ==
  { <<DASH, DASH, DASH, "c", DASH, DASH, DASH, NL>>,
    <<DASH, DASH, NL, "c", COLON, DASH, NL>> }

Distinct(m) == \A a, b \in 1..Len(m) : m[a].k = m[b].k => a = b

Fields(keys, values) == {[k |-> k, v |-> v] : k \in keys, v \in values}

\* the stanzas (IndexMap values) of at most MaxFields fields
Stanzas(keys, values) ==
  {m \in SeqsUpTo(Fields(keys, values), MaxFields) : Distinct(m)}

PlainKeys == {<<"a">>, <<"c">>}
PlainValues ==
  { OneLine(<<"b">>), MultiLine(<< <<"a">>, <<"b">> >>), MultiLine(<<>>) }

OddKeys == {<<"a">>, <<"c">>, <<DASH, "a">>, <<DASH, DASH>>, <<>>}
OddValues ==
  { OneLine(<<"b">>), OneLine(<<>>), OneLine(<<SP, "b">>), OneLine(<<DASH>>),
    OneLine(<<"a", COLON, "b">>),
    MultiLine(<< <<"a">>, <<"b">> >>), MultiLine(<<>>),
    MultiLine(<< <<>>, <<"c", COLON, "d">> >>) }

\* the document of test_parse_back
ExampleDoc ==
  << << [k |-> <<"a">>, v |-> OneLine(<<"b">>)],
        [k |-> <<"c">>, v |-> MultiLine(<< <<"a">>, <<"b">> >>)],
        [k |-> <<"d">>, v |-> OneLine(<<"e">>)] >>,
     << [k |-> <<"a">>, v |-> OneLine(<<"b">>)] >> >>

ExampleText ==
  <<"a", COLON, SP, "b", NL,
    "c", COLON, NL,
    SP, SP, "a", NL,
    SP, SP, "b", NL,
    "d", COLON, SP, "e", NL,
    NL,
    "a", COLON, SP, "b", NL,
    NL>>

Docs ==
  SeqsUpTo(Stanzas(PlainKeys, PlainValues), MaxStanzas)
    \cup {<<m>> : m \in Stanzas(OddKeys, OddValues)}
    \cup {ExampleDoc}

(***************************************************************************)
(* The state machine: a caller holds a text s or a document map, and       *)
(* calls the public functions on it.                                       *)
(***************************************************************************)
Init ==
  /\ \/ pc = "start" /\ s \in Texts /\ map = <<>>
     \/ pc = "built" /\ s = <<>> /\ map \in Docs
  /\ r = Failed
  /\ prev = Failed
  /\ cmt = <<>>

\* let r = parse_one(s)
ParseOne ==
  /\ pc = "start"
  /\ r' = parse_one(s)
  /\ pc' = "parse_one"
  /\ UNCHANGED <<s, map, prev, cmt>>

\* let r = parse_multi(s): of the text, of the text with a comment block put
\* before it, or of what parse_back returned
ParseMulti ==
  /\ pc \in {"start", "commented", "parse_back"}
  /\ r' = parse_multi(s)
  /\ pc' = CASE pc = "start" -> "parse_multi"
             [] pc = "commented" -> "parse_multi_commented"
             [] pc = "parse_back" -> "parse_multi_back"
  /\ UNCHANGED <<s, map, prev, cmt>>

\* the caller puts a comment block before the text it has parsed
AddComment ==
  /\ pc = "parse_multi"
  /\ \E c \in Comments :
       /\ s' = c \o s
       /\ cmt' = c
  /\ prev' = r
  /\ pc' = "commented"
  /\ UNCHANGED <<map, r>>

\* let s = parse_back(&map)
ParseBack ==
  /\ pc = "built"
  /\ s' = parse_back(map)
  /\ pc' = "parse_back"
  /\ UNCHANGED <<map, r, prev, cmt>>

Next == ParseOne \/ ParseMulti \/ AddComment \/ ParseBack

Spec == Init /\ [][Next]_vars

(***************************************************************************)
(* Reading a text by its lines, as the format describes it                 *)
(***************************************************************************)
ParsedMulti == pc \in {"parse_multi", "parse_multi_commented", "parse_multi_back"}
Parsed == pc = "parse_one" \/ ParsedMulti

\* the stanzas of the result and the raw fields they were built from
ResultStanzas == IF pc = "parse_one" THEN <<r.val>> ELSE r.val
RawStanzas == IF pc = "parse_one" THEN <<r.raw>> ELSE r.raw

\* the position of the first newline at or after p (0: there is none)
NewlineFrom(t, p) ==
  LET nl == {j \in p..Len(t) : t[j] = NL} IN IF nl = {} THEN 0 ELSE Min(nl)

\* the lines of a text whose every line is terminated, newlines removed
RECURSIVE LinesOf(_)
LinesOf(t) ==
  IF t = <<>> THEN <<>>
  ELSE <<SubSeq(t, 1, NewlineFrom(t, 1) - 1)>>
         \o LinesOf(SubSeq(t, NewlineFrom(t, 1) + 1, Len(t)))

EndsWithNewline(t) == t # <<>> /\ t[Len(t)] = NL

HasColon(l) == \E j \in 1..Len(l) : l[j] = COLON
NameOf(l) == SubSeq(l, 1, Min({j \in 1..Len(l) : l[j] = COLON}) - 1)

\* a line "<name>:<value>": the name is not empty and does not begin with
\* white space or with the "--" of a comment block
FieldLine(l) ==
  /\ HasColon(l)
  /\ NameOf(l) # <<>>
  /\ l[1] \notin {SP, TAB}
  /\ ~At(l, 1, <<DASH, DASH>>)

ContinuationLine(l) == l # <<>> /\ l[1] = SP

\* one or more stanzas, each a field line followed by field lines and
\* continuation lines, with one blank line between two stanzas and at most
\* one after the last
WellFormed(t) ==
  /\ EndsWithNewline(t)
  /\ LET ls == LinesOf(t)
     IN  /\ FieldLine(ls[1])
         /\ \A j \in 1..Len(ls) :
              \/ FieldLine(ls[j])
              \/ ContinuationLine(ls[j])
              \/ ls[j] = <<>> /\ (j < Len(ls) => FieldLine(ls[j + 1]))

\* the stanza a line belongs to, and the number of stanzas
StanzaOfLine(ls, j) == 1 + Cardinality({b \in 1..(j - 1) : ls[b] = <<>>})
StanzaCount(t) ==
  LET ls == LinesOf(t)
  IN  1 + Cardinality({b \in 1..(Len(ls) - 1) : ls[b] = <<>>})

\* the field names written in stanza n of a well-formed text
NamesWritten(t, n) ==
  LET ls == LinesOf(t)
  IN  {NameOf(ls[j]) : j \in {x \in 1..Len(ls) :
                                FieldLine(ls[x]) /\ StanzaOfLine(ls, x) = n}}

KeysOf(m) == {m[j].k : j \in 1..Len(m)}

\* the continuation lines that follow position p: the lines of the longest
\* run of terminated lines that begin with a space, without that space
RECURSIVE ContinuationLines(_, _)
ContinuationLines(t, p) ==
  IF p <= Len(t) /\ t[p] = SP /\ NewlineFrom(t, p) # 0
  THEN <<SubSeq(t, p + 1, NewlineFrom(t, p) - 1)>>
         \o ContinuationLines(t, NewlineFrom(t, p) + 1)
  ELSE <<>>

\* the value the format gives the field whose separator ':' is at position
\* c of text t
ValueWritten(t, c) ==
  LET nl == NewlineFrom(t, c)
      first == Min({j \in (c + 1)..nl : t[j] \notin {SP, TAB}})
      text == SubSeq(t, first, nl - 1)
      cont == ContinuationLines(t, nl + 1)
  IN  IF text # <<>> THEN OneLine(text)
      ELSE IF cont = <<>> THEN MultiLine(<< <<>> >>)
      ELSE MultiLine(cont)

\* the fields of raw stanza R that carry the name k
Occurrences(R, k) == {j \in 1..Len(R) : Bytes(s, R[j][1]) = k}

\* the entry of stanza M for name k
Entry(M, k) == M[CHOOSE a \in 1..Len(M) : M[a].k = k]

(***************************************************************************)
(* The claims                                                              *)
(***************************************************************************)

\* C1: parse_multi never returns a partial document: when it returns Ok it
\* has consumed the input to its end.
C1_NoPartialDocument ==
  (ParsedMulti /\ r.ok) => (r.rest = Len(s) + 1)

\* C2: parse_one returns an error for every input made of two or more
\* well-formed stanzas separated by a blank line.
C2_ParseOneExactlyOne ==
  (pc = "parse_one" /\ WellFormed(s) /\ StanzaCount(s) >= 2) => ~r.ok

\* C3: the value of every field is the one its text gives: MultiLine of the
\* continuation lines (of one empty line when there are none) when nothing
\* stands between the separator and the newline, OneLine of that text
\* otherwise, whatever continuation lines follow.
C3_ValueClassification ==
  (Parsed /\ r.ok) =>
    \A n \in 1..Len(RawStanzas) :
      LET R == RawStanzas[n]
          M == ResultStanzas[n]
      IN  \A j \in 1..Len(R) :
            LET k == Bytes(s, R[j][1])
            IN  j = Max(Occurrences(R, k)) =>
                  /\ k \in KeysOf(M)
                  /\ Entry(M, k).v = ValueWritten(s, R[j][1].to)

C3_Witness ==
  /\ pc = "parse_multi"
  /\ r.ok
  /\ Len(r.val) = 1
  /\ KeysOf(r.val[1]) = {<<"a">>, <<"c">>}
  /\ Entry(r.val[1], <<"a">>).v = MultiLine(<< <<"b">>, <<"b">> >>)
  /\ Entry(r.val[1], <<"c">>).v = OneLine(<<"d">>)

\* what the round-trip claims ask of a document: one stanza
OneStanza == Len(map) = 1

NoNewline(x) == \A j \in 1..Len(x) : x[j] # NL

\* a field name that the grammar reads back as it was written
PlainName(k) ==
  /\ k # <<>>
  /\ \A j \in 1..Len(k) : k[j] \notin {COLON, NL}
  /\ k[1] # SP
  /\ ~At(k, 1, <<DASH, DASH>>)

AllOneLine(m) ==
  \A j \in 1..Len(m) : m[j].v.tag = "OneLine" /\ NoNewline(m[j].v.lines[1])

\* C4 as stated: for every stanza D whose fields are all OneLine with values
\* free of newlines, parse_multi(parse_back([D])) is Ok([D]).  It is stated
\* here for the stanzas of at least one field with plain names only, and
\* fails for them too.
C4_OneLineRoundTrip_Original ==
  (/\ pc = "parse_multi_back"
   /\ OneStanza
   /\ map[1] # <<>>
   /\ AllOneLine(map[1])
   /\ \A j \in 1..Len(map[1]) : PlainName(map[1][j].k))
  => (r.ok /\ r.val = map)

\* C4 as amended: the same for every stanza D that has at least one field,
\* whose names are not empty, hold no ':' and no newline and begin neither
\* with a space nor with "--", and whose values are OneLine, not empty, free
\* of newlines and do not begin with a space or a tab.
PlainOneLine(m) ==
  /\ m # <<>>
  /\ AllOneLine(m)
  /\ \A j \in 1..Len(m) :
       /\ PlainName(m[j].k)
       /\ m[j].v.lines[1] # <<>>
       /\ m[j].v.lines[1][1] \notin {SP, TAB}

C4_OneLineRoundTrip ==
  (pc = "parse_multi_back" /\ OneStanza /\ PlainOneLine(map[1]))
    => (r.ok /\ r.val = map)

C4_Witness ==
  /\ pc = "parse_multi_back"
  /\ map = << << [k |-> <<DASH, "a">>, v |-> OneLine(<<"a", COLON, "b">>)],
                 [k |-> <<"c">>, v |-> OneLine(<<DASH>>)] >> >>
  /\ r.ok
  /\ r.val = map

\* every line of v with one more space before it
Indented(v) == [n \in 1..Len(v) |-> <<SP>> \o v[n]]

PlainStanza(m) ==
  \A j \in 1..Len(m) :
    /\ PlainName(m[j].k)
    /\ \A n \in 1..Len(m[j].v.lines) : NoNewline(m[j].v.lines[n])

MultiLineFields(m) == {j \in 1..Len(m) : m[j].v.tag = "MultiLine"}

\* C5 as stated: a field MultiLine(lines) of a stanza comes back from
\* parse_multi(parse_back([stanza])) as MultiLine of the same list of lines.
\* It is stated here for the stanzas of the amended claim only (plain names,
\* no newline in a value, at least one line), and fails for them too.
C5_MultiLineRoundTrip_Original ==
  (pc = "parse_multi_back" /\ OneStanza /\ PlainStanza(map[1])) =>
    \A j \in MultiLineFields(map[1]) :
     map[1][j].v.lines # <<>> =>
      /\ r.ok
      /\ Len(r.val) >= 1
      /\ map[1][j].k \in KeysOf(r.val[1])
      /\ Entry(r.val[1], map[1][j].k).v = map[1][j].v

\* C5 as amended: in a stanza whose names are not empty, hold no ':' and no
\* newline and begin neither with a space nor with "--", and whose values
\* hold no newline, a field MultiLine(lines) with at least one line comes
\* back, in the first stanza of parse_multi(parse_back([stanza])), as
\* MultiLine of as many lines in the same order, each the line that was
\* written with one more space before it.
C5_MultiLineRoundTrip ==
  (pc = "parse_multi_back" /\ OneStanza /\ PlainStanza(map[1])) =>
    \A j \in MultiLineFields(map[1]) :
      map[1][j].v.lines # <<>> =>
        /\ r.ok
        /\ Len(r.val) >= 1
        /\ map[1][j].k \in KeysOf(r.val[1])
        /\ Entry(r.val[1], map[1][j].k).v = MultiLine(Indented(map[1][j].v.lines))

C5_Witness ==
  /\ pc = "parse_multi_back"
  /\ map = << << [k |-> <<"a">>, v |-> MultiLine(<< <<"a">>, <<"b">> >>)],
                 [k |-> <<"c">>, v |-> OneLine(<<"b">>)] >> >>
  /\ r.ok
  /\ r.val = << << [k |-> <<"a">>, v |-> MultiLine(<< <<SP, "a">>, <<SP, "b">> >>)],
                   [k |-> <<"c">>, v |-> OneLine(<<"b">>)] >> >>

\* the text the format gives a field, a stanza and a document
FieldText(f) ==
  f.k \o <<COLON>> \o
    IF f.v.tag = "OneLine" THEN <<SP>> \o f.v.lines[1] \o <<NL>>
    ELSE <<NL>> \o Concat([n \in 1..Len(f.v.lines) |->
                              <<SP, SP>> \o f.v.lines[n] \o <<NL>>])
StanzaText(m) == Concat([j \in 1..Len(m) |-> FieldText(m[j])]) \o <<NL>>
DocumentText(doc) == Concat([n \in 1..Len(doc) |-> StanzaText(doc[n])])

\* C6: parse_back returns, stanza after stanza, every field in stored order
\* as "<key>:" and " <value>\n" or "\n" and "  <line>\n" for each line, and
\* "\n" after each stanza; nothing for no stanza; and the text of the
\* example for the example document.
C6_SerializerFormat ==
  pc = "parse_back" =>
    /\ s = DocumentText(map)
    /\ (map = <<>> => s = <<>>)
    /\ (map = ExampleDoc => s = ExampleText)

C6_Witness == pc = "parse_back" /\ map = ExampleDoc /\ s = ExampleText

BlankOnly(t) == t # <<>> /\ \A j \in 1..Len(t) : t[j] \in {NL, SP, TAB}

\* C7: parse_multi returns no stanza exactly for the empty input; for every
\* other input it returns an error or stanzas of at least one field each,
\* and an error when the input is only blank.
C7_EmptyDocument ==
  ParsedMulti =>
    /\ ((r.ok /\ r.val = <<>>) <=> (s = <<>>))
    /\ (r.ok => \A n \in 1..Len(r.val) : r.val[n] # <<>>)
    /\ (BlankOnly(s) => ~r.ok)

C7_Witness == pc = "parse_multi" /\ s = <<>> /\ r.ok /\ r.val = <<>>

\* the text the comment block was put before
Uncommented == SubSeq(s, Len(cmt) + 1, Len(s))

\* C8: parse_multi of a comment block followed by a stanza text returns what
\* parse_multi of the stanza text returns (a stanza text is not empty).
C8_CommentTransparent ==
  (pc = "parse_multi_commented" /\ Uncommented # <<>>) =>
    (r.ok = prev.ok /\ r.val = prev.val)

C8_Witness ==
  /\ pc = "parse_multi_commented"
  /\ WellFormed(Uncommented)
  /\ StanzaCount(Uncommented) = 2
  /\ r.ok
  /\ Len(r.val) = 2
  /\ r.val = prev.val

\* the position in the text at which name k is first written in raw stanza R
FirstWritten(R, k) == Min({R[j][1].from : j \in Occurrences(R, k)})

\* C9: the fields of a stanza iterate in the order in which their names are
\* first written; a name written more than once has one entry, where it was
\* first written, with the value written last.
C9_OrderAndDuplicates ==
  (Parsed /\ r.ok) =>
    \A n \in 1..Len(RawStanzas) :
      LET R == RawStanzas[n]
          M == ResultStanzas[n]
      IN  /\ Distinct(M)
          /\ KeysOf(M) = {Bytes(s, R[j][1]) : j \in 1..Len(R)}
          /\ \A a, b \in 1..Len(M) :
               a < b => FirstWritten(R, M[a].k) < FirstWritten(R, M[b].k)
          /\ \A a \in 1..Len(M) :
               M[a].v = ValueWritten(s, R[Max(Occurrences(R, M[a].k))][1].to)

C9_Witness ==
  /\ pc = "parse_one"
  /\ s = <<"a", COLON, SP, "b", NL, "c", COLON, SP, "d", NL, "a", COLON, NL>>
  /\ r.ok
  /\ r.val = << [k |-> <<"a">>, v |-> MultiLine(<< <<>> >>)],
                [k |-> <<"c">>, v |-> OneLine(<<"d">>)] >>

\* C10: for a text of k well-formed stanzas parse_multi returns k stanzas,
\* and stanza n holds exactly the names written in stanza n of the text.
C10_StanzaBoundaries ==
  (pc = "parse_multi" /\ WellFormed(s)) =>
    /\ r.ok
    /\ Len(r.val) = StanzaCount(s)
    /\ \A n \in 1..Len(r.val) : KeysOf(r.val[n]) = NamesWritten(s, n)

====
